---- MODULE Spec2Model ----
(***************************************************************************)
(* The Google Cloud Tasks queue bridge of @workflow/jan-world             *)
(* (createQueue): queue() dispatches a message as a Cloud Tasks task,     *)
(* processTask() hands a delivered task to the embedded world, start()    *)
(* provisions the two physical queues.                                     *)
(*                                                                         *)
(* One action is one resumption of an async function: the response of the *)
(* awaited external call together with the synchronous code that runs up  *)
(* to the next await.  Several calls are in flight at once and their      *)
(* resumptions interleave freely.                                          *)
(***************************************************************************)
EXTENDS Integers, Sequences, FiniteSets, TLC

VARIABLES
    config,     \* the JanWorldConfig given to createQueue
    queues,     \* Cloud Tasks: the queue paths that exist
    tasks,      \* Cloud Tasks: the tasks it holds
    calls,      \* the invocations of queue / start / processTask in flight
    ended,      \* the invocation that returned or threw in the last step (its
                \* locals and result, for that one state), IdleCall if none did
    gen,        \* state of generateMessageId (ulid monotonicFactory)
    finished,   \* history: message ids generated by calls that have ended
    ensured,    \* history: queue names some ensureQueue has returned for
    started     \* history: number of operations started

vars == <<config, queues, tasks, calls, ended, gen, finished, ensured, started>>

---------------------------------------------------------------------------
(* Bounds of the model *)

MaxOps == 2     \* operations started in one behaviour
TIME_LEN == 2   \* characters of a ulid's time part (ulid: 10)
RANDOM_LEN == 2 \* characters of a ulid's random part (ulid: 16)

\* two invocations may be in flight at once
Calls == {1, 2}

\* what Date.now() may read, in milliseconds
TimeInputs == {1, 2}

---------------------------------------------------------------------------
(* JavaScript values *)

\* the value undefined (an absent option, an absent field)
Undefined == "<undefined>"

\* `${v}` : template-literal conversion of a string or undefined
ToStr(v) == IF v = Undefined THEN "undefined" ELSE v

\* v || d  and  if (v)  for a string or undefined
Truthy(v) == v # Undefined /\ v # ""

StartsWith(s, p) == Len(s) >= Len(p) /\ SubSeq(s, 1, Len(p)) = p

\* s.slice(n)
Slice(s, n) == SubSeq(s, n + 1, Len(s))

\* s.charAt(i), i from 0
CharAt(s, i) == SubSeq(s, i + 1, i + 1)

\* JSON.parse(JSON.stringify(obj)) of a flat object: undefined fields vanish
JsonRoundTrip(obj) == [k \in {f \in DOMAIN obj : obj[f] # Undefined} |-> obj[k]]

\* payload.k of a parsed object
Field(obj, k) == IF k \in DOMAIN obj THEN obj[k] ELSE Undefined

NoPayload == [k \in {} |-> Undefined]

---------------------------------------------------------------------------
(* Inputs *)

QueuePrefixInputs == {Undefined, "wf-"}

\* the dispatches a producer makes: queue name, message, opts.idempotencyKey
DispatchInputs ==
    {<<"__wkf_step_a", "m1", Undefined>>,
     <<"__wkf_step_a", "m1", "k1">>,
     <<"__wkf_step_b", "m2", "k1">>,
     <<"__wkf_workflow_", "m2", "">>,
     <<"__wkf_workflow_a", "m1", "">>,
     <<"__wkf_stepa", "m1", "k1">>,
     <<"x__wkf_step_a", "m2", Undefined>>}

MessageInputs == {d[2] : d \in DispatchInputs}

RECURSIVE Repeat(_, _)
Repeat(ch, n) == IF n = 0 THEN "" ELSE ch \o Repeat(ch, n - 1)

\* what the prng of the ulid factory may return: RANDOM_LEN characters, one
\* draw whose increment carries and the one that cannot be incremented
RandomDraws == {Repeat("0", RANDOM_LEN - 1) \o "Z", Repeat("Z", RANDOM_LEN)}

---------------------------------------------------------------------------
(* parseQueueName *)

\* const prefixes: QueuePrefix[] = ['__wkf_step_', '__wkf_workflow_']
prefixes == <<"__wkf_step_", "__wkf_workflow_">>

QueuePrefix == {prefixes[i] : i \in DOMAIN prefixes}

RECURSIVE parseQueueNameFrom(_, _)
parseQueueNameFrom(name, i) ==
    IF i > Len(prefixes)
    THEN [thrown |-> TRUE, prefix |-> Undefined, id |-> Undefined,
          error |-> "Invalid queue name: " \o name]
    ELSE IF StartsWith(name, prefixes[i])
         THEN [thrown |-> FALSE, prefix |-> prefixes[i],
               id |-> Slice(name, Len(prefixes[i])), error |-> Undefined]
         ELSE parseQueueNameFrom(name, i + 1)

\* a parseQueueName that slices the id one character late
parseQueueNameSlicedLate(name) ==
    LET r == parseQueueNameFrom(name, 1)
    IN  IF r.thrown THEN r ELSE [r EXCEPT !.id = Slice(name, Len(r.prefix) + 1)]

\* a parseQueueName that falls back to the step prefix instead of throwing
parseQueueNameDefaulting(name) ==
    LET r == parseQueueNameFrom(name, 1)
    IN  IF r.thrown
        THEN [thrown |-> FALSE, prefix |-> "__wkf_step_", id |-> name,
              error |-> Undefined]
        ELSE r

parseQueueName(name) == parseQueueNameFrom(name, 1)

---------------------------------------------------------------------------
(* Physical queues and Cloud Tasks resource paths *)

\* the prefix taken from the configuration without a default
prefixNoDefault == ToStr(config.queuePrefix)

\* const prefix = config.queuePrefix || 'workflow-'
prefix == IF Truthy(config.queuePrefix) THEN config.queuePrefix ELSE "workflow-"

Queues ==
    ("__wkf_workflow_" :> prefix \o "flows") @@ ("__wkf_step_" :> prefix \o "steps")

\* the values of Queues cut after the first
QueuesValuesFirstOnly == <<Queues["__wkf_workflow_"]>>

\* Object.values(Queues), in insertion order
QueuesValues == <<Queues["__wkf_workflow_"], Queues["__wkf_step_"]>>

\* client.locationPath(project, location)
locationPath(project, location) ==
    "projects/" \o project \o "/locations/" \o location

\* client.queuePath(project, location, queue)
queuePath(project, location, queueName) ==
    locationPath(project, location) \o "/queues/" \o queueName

\* client.taskPath(project, location, queue, task)
taskPath(project, location, queueName, task) ==
    queuePath(project, location, queueName) \o "/tasks/" \o task

getQueuePath(queueName) ==
    queuePath(config.gcpProjectId, config.gcpLocation, queueName)

\* gRPC status codes of the Cloud Tasks client's errors (OK is no error)
Status == [OK |-> 0, NOT_FOUND |-> 5, ALREADY_EXISTS |-> 6, UNAVAILABLE |-> 14]

---------------------------------------------------------------------------
(* generateMessageId = monotonicFactory() of ulid *)

ENCODING == "0123456789ABCDEFGHJKMNPQRSTVWXYZ"
ENCODING_LEN == Len(ENCODING)

\* index of a character in an alphabet, from 0 (s.indexOf(ch))
IndexOf(s, ch) == CHOOSE i \in 0 .. Len(s) - 1 : CharAt(s, i) = ch

RECURSIVE encodeTime(_, _)
encodeTime(now, len) ==
    IF len = 0 THEN ""
    ELSE encodeTime(now \div ENCODING_LEN, len - 1)
            \o CharAt(ENCODING, now % ENCODING_LEN)

replaceCharAt(str, index, ch) ==
    SubSeq(str, 1, index) \o ch \o SubSeq(str, index + 2, Len(str))

\* incrementBase32: carries from the last character; throws when every
\* character is the last of the alphabet
RECURSIVE incrementBase32From(_, _)
incrementBase32From(str, index) ==
    IF index < 0 THEN [thrown |-> TRUE, value |-> Undefined]
    ELSE LET charIndex == IndexOf(ENCODING, CharAt(str, index))
         IN  IF charIndex = ENCODING_LEN - 1
             THEN incrementBase32From(replaceCharAt(str, index, CharAt(ENCODING, 0)),
                                      index - 1)
             ELSE [thrown |-> FALSE,
                   value |-> replaceCharAt(str, index, CharAt(ENCODING, charIndex + 1))]

incrementBase32(str) == incrementBase32From(str, Len(str) - 1)

\* one call of the factory's ulid(): g is the factory state, seedTime the
\* Date.now() it reads, random what its prng returns if it is asked
monotonicUlid(g, seedTime, random) ==
    IF seedTime <= g.lastTime
    THEN LET inc == incrementBase32(g.lastRandom)
         IN  IF inc.thrown
             THEN [thrown |-> TRUE, ulid |-> Undefined, gen |-> g]
             ELSE [thrown |-> FALSE,
                   ulid |-> encodeTime(g.lastTime, TIME_LEN) \o inc.value,
                   gen |-> [lastTime |-> g.lastTime, lastRandom |-> inc.value]]
    ELSE [thrown |-> FALSE,
          ulid |-> encodeTime(seedTime, TIME_LEN) \o random,
          gen |-> [lastTime |-> seedTime, lastRandom |-> random]]

\* the state of a factory just made by monotonicFactory()
NewFactory == [lastTime |-> 0, lastRandom |-> Undefined]

\* a generateMessageId that makes its factory anew in every call
generateMessageIdPerCall(g, seedTime, random) ==
    monotonicUlid(NewFactory, seedTime, random)

\* generateMessageId(): the one factory of the createQueue instance
generateMessageId(g, seedTime, random) == monotonicUlid(g, seedTime, random)

---------------------------------------------------------------------------
(* The message codec (JsonTransport) and QueuePayloadSchema *)

\* transport.serialize(message)
serialize(message) == "J:" \o message

\* transport.deserialize(stream of data): throws on what is no JSON text
deserialize(data) ==
    IF data # Undefined /\ StartsWith(data, "J:")
    THEN [thrown |-> FALSE, body |-> Slice(data, 2)]
    ELSE [thrown |-> TRUE, body |-> Undefined]

\* QueuePayloadSchema.parse(body): throws on what is no queue payload
QueuePayloadSchemaParse(body) ==
    IF body \in MessageInputs
    THEN [thrown |-> FALSE, message |-> body]
    ELSE [thrown |-> TRUE, message |-> Undefined]

---------------------------------------------------------------------------
(* Cloud Tasks, as the bridge sees it through CloudTasksClient *)

\* getQueue: the queue, or NOT_FOUND; any request may fail as unavailable
getQueueOutcomes(path) ==
    (IF path \in queues THEN {Status.OK} ELSE {Status.NOT_FOUND})
        \cup {Status.UNAVAILABLE}

\* createQueue: a second creation of a queue is rejected as ALREADY_EXISTS
createQueueOutcomes(path) ==
    (IF path \in queues THEN {Status.ALREADY_EXISTS} ELSE {Status.OK})
        \cup {Status.UNAVAILABLE}

\* createTask: at most one live task per name
createTaskOutcomes(task) ==
    (IF task.parent \notin queues THEN {Status.NOT_FOUND}
     ELSE IF task.name # Undefined /\ \E t \in tasks : t.name = task.name
          THEN {Status.ALREADY_EXISTS}
          ELSE {Status.OK})
        \cup {Status.UNAVAILABLE}

\* the identity the service gives a task submitted without a name
assignedName(task) ==
    task.parent \o "/tasks/#" \o CharAt(ENCODING, Cardinality(tasks))

---------------------------------------------------------------------------
(* Invocations *)

NoTask == [parent |-> Undefined, name |-> Undefined, body |-> NoPayload]

NoEngineArgs ==
    [queueName |-> Undefined, message |-> Undefined, idempotencyKey |-> Undefined]

NoOrigin == [queue |-> Undefined, message |-> Undefined, key |-> Undefined]

NoResult ==
    [status |-> "none", messageId |-> Undefined, error |-> Undefined, code |-> 0]

Returned(messageId) ==
    [status |-> "returned", messageId |-> messageId, error |-> Undefined, code |-> 0]

Thrown(error, code) ==
    [status |-> "thrown", messageId |-> Undefined, error |-> error, code |-> code]

IdleCall ==
    [op |-> "none", pc |-> "idle",
     queue |-> Undefined, message |-> Undefined, key |-> Undefined,
     payload |-> NoPayload,
     prefix |-> Undefined, queueId |-> Undefined, jobName |-> Undefined,
     todo |-> <<>>, messageId |-> Undefined, task |-> NoTask,
     engineArgs |-> NoEngineArgs,
     trace |-> <<>>,            \* the external calls made, with their outcome
     result |-> NoResult,
     before |-> {},             \* history: ids of the calls ended before this one began
     ensuredBefore |-> FALSE,   \* history: an ensureQueue had returned for jobName
     origin |-> NoOrigin]       \* history: the dispatch whose task is delivered

Event(api, target, code) == [api |-> api, target |-> target, code |-> code]

\* no invocation is running in slot c
Vacant(c) == calls[c].pc = "idle"

\* a new invocation takes the first vacant slot (the slots are interchangeable)
Free(c) ==
    /\ started < MaxOps
    /\ Vacant(c)
    /\ \A d \in Calls : d < c => ~Vacant(d)

\* the invocation ends: it returns or throws
Finish(c, rec, result) ==
    /\ calls' = [calls EXCEPT ![c] = IdleCall]
    /\ ended' = [rec EXCEPT !.pc = "done", !.result = result]
    /\ finished' = IF rec.messageId # Undefined
                   THEN finished \cup {rec.messageId}
                   ELSE finished

\* the invocation goes on as rec, up to its next await
Continue(c, rec) ==
    /\ calls' = [calls EXCEPT ![c] = rec]
    /\ ended' = IdleCall
    /\ finished' = finished

---------------------------------------------------------------------------
(* ensureQueue *)

\* a catch block that creates the queue after any error
ensureQueueCatchAnyError(code) == "createQueue"

\* a catch block that swallows the errors it does not handle
ensureQueueCatchSwallowing(code) ==
    IF code = Status.NOT_FOUND THEN "createQueue" ELSE "return"

\* the catch block of ensureQueue: what follows a getQueue that failed
ensureQueueCatch(code) ==
    IF code = Status.NOT_FOUND THEN "createQueue" ELSE "throw"

\* ensureQueue(queueName) begins: getQueue is sent
ensureQueue(rec, queueName) ==
    [rec EXCEPT !.jobName = queueName, !.pc = "getQueue",
                !.ensuredBefore = queueName \in ensured]

---------------------------------------------------------------------------
(* queue *)

\* a dispatch that never names its task
taskNameNever(jobName, idempotencyKey) == Undefined

\* a task name derived whether or not there is a key
taskNameAlways(jobName, idempotencyKey) ==
    taskPath(config.gcpProjectId, config.gcpLocation, jobName, ToStr(idempotencyKey))

\* the task name of a dispatch: opts.idempotencyKey, when there is one
taskName(jobName, idempotencyKey) ==
    IF Truthy(idempotencyKey)
    THEN taskPath(config.gcpProjectId, config.gcpLocation, jobName, idempotencyKey)
    ELSE Undefined

\* an envelope whose prefix is lost
envelopeNoPrefix(queueId, body, messageId, idempotencyKey, queuePrefix) ==
    [id |-> queueId, data |-> body, messageId |-> messageId,
     idempotencyKey |-> idempotencyKey, prefix |-> Undefined]

\* the envelope carrying the whole queue name as its id
envelopeFullName(queueId, body, messageId, idempotencyKey, queuePrefix) ==
    [id |-> queuePrefix \o queueId, data |-> body, messageId |-> messageId,
     idempotencyKey |-> idempotencyKey, prefix |-> queuePrefix]

\* the object that JSON.stringify turns into the body of the HTTP request
envelope(queueId, body, messageId, idempotencyKey, queuePrefix) ==
    [id |-> queueId, data |-> body, messageId |-> messageId,
     idempotencyKey |-> idempotencyKey, prefix |-> queuePrefix]

\* queue() naming the task after the queue's suffix id and the key
queueSubmitNamedPerId(rec, messageId) ==
    LET body == serialize(rec.message)
        queuePathOfJob == getQueuePath(rec.jobName)
        task == [parent |-> queuePathOfJob,
                 name |-> IF Truthy(rec.key)
                          THEN taskName(rec.jobName, rec.queueId \o "-" \o rec.key)
                          ELSE Undefined,
                 body |-> JsonRoundTrip(envelope(rec.queueId, body, messageId,
                                                 rec.key, rec.prefix))]
    IN  [rec EXCEPT !.messageId = messageId, !.task = task, !.pc = "createTask"]

\* queue() from the return of ensureQueue to the createTask it sends
queueSubmit(rec, messageId) ==
    LET body == serialize(rec.message)
        queuePathOfJob == getQueuePath(rec.jobName)
        task == [parent |-> queuePathOfJob,
                 name |-> taskName(rec.jobName, rec.key),
                 body |-> JsonRoundTrip(envelope(rec.queueId, body, messageId,
                                                 rec.key, rec.prefix))]
    IN  [rec EXCEPT !.messageId = messageId, !.task = task, !.pc = "createTask"]

\* queue(queue, message, opts) is called: parseQueueName, then ensureQueue
QueueCall(c, name, message, key) ==
    /\ Free(c)
    /\ started' = started + 1
    /\ LET parsed == parseQueueName(name)
           rec == [IdleCall EXCEPT !.op = "queue", !.queue = name,
                                   !.message = message, !.key = key,
                                   !.before = finished]
       IN  IF parsed.thrown
           THEN Finish(c, rec, Thrown(parsed.error, 0))
           ELSE Continue(c, ensureQueue([rec EXCEPT !.prefix = parsed.prefix,
                                                    !.queueId = parsed.id],
                                        Queues[parsed.prefix]))
    /\ UNCHANGED <<config, queues, tasks, gen, ensured>>

\* queue() resumes after ensureQueue: the message id, then createTask is sent
QueueAfterEnsure(c, rec) ==
    \* only the order of the clock's readings matters: the first reading is 1,
    \* a later one is the last one, an earlier one, or the next
    \E now \in {t \in TimeInputs : t <= gen.lastTime + 1}, random \in RandomDraws :
        LET g == generateMessageId(gen, now, random)
        IN  /\ gen' = g.gen
            /\ IF g.thrown
               THEN Finish(c, rec, Thrown("cannot increment this string", 0))
               ELSE Continue(c, queueSubmit(rec, "msg_" \o g.ulid))

---------------------------------------------------------------------------
(* start *)

\* start() is called: the first ensureQueue of the loop
StartCall(c) ==
    /\ Free(c)
    /\ started' = started + 1
    /\ Continue(c, ensureQueue([IdleCall EXCEPT !.op = "start",
                                                 !.todo = Tail(QueuesValues)],
                                Head(QueuesValues)))
    /\ UNCHANGED <<config, queues, tasks, gen, ensured>>

\* ensureQueue(rec.jobName) has returned normally to queue() or start()
EnsureReturned(c, rec) ==
    /\ ensured' = ensured \cup {rec.jobName}
    /\ IF rec.op = "start"
       THEN /\ gen' = gen
            /\ IF rec.todo = <<>>
               THEN Finish(c, rec, Returned(Undefined))
               ELSE Continue(c, ensureQueue([rec EXCEPT !.todo = Tail(rec.todo)],
                                            Head(rec.todo)))
       ELSE QueueAfterEnsure(c, rec)

\* the response to getQueue arrives
GetQueueResponse(c) ==
    /\ calls[c].pc = "getQueue"
    /\ \E code \in getQueueOutcomes(getQueuePath(calls[c].jobName)) :
         LET path == getQueuePath(calls[c].jobName)
             rec == [calls[c] EXCEPT !.trace = Append(@, Event("getQueue", path, code))]
             then == IF code = Status.OK THEN "return" ELSE ensureQueueCatch(code)
         IN  CASE then = "return" -> EnsureReturned(c, rec)
               [] then = "createQueue" ->
                      /\ Continue(c, [rec EXCEPT !.pc = "createQueue"])
                      /\ UNCHANGED <<gen, ensured>>
               [] OTHER ->
                      /\ Finish(c, rec, Thrown("getQueue", code))
                      /\ UNCHANGED <<gen, ensured>>
    /\ UNCHANGED <<config, queues, tasks, started>>

\* the response to createQueue arrives
CreateQueueResponse(c) ==
    /\ calls[c].pc = "createQueue"
    /\ \E code \in createQueueOutcomes(getQueuePath(calls[c].jobName)) :
         LET path == getQueuePath(calls[c].jobName)
             rec == [calls[c] EXCEPT !.trace = Append(@, Event("createQueue", path, code))]
         IN  IF code = Status.OK
             THEN /\ queues' = queues \cup {path}
                  /\ EnsureReturned(c, rec)
             ELSE /\ Finish(c, rec, Thrown("createQueue", code))
                  /\ UNCHANGED <<queues, gen, ensured>>
    /\ UNCHANGED <<config, tasks, started>>

\* queue() with createTask's rejection caught and dropped
queueReturnSwallowing(rec, code) == Returned(rec.messageId)

\* queue() taking the rejection of a duplicate for a success
queueReturnDuplicateAsSuccess(rec, code) ==
    IF code \in {Status.OK, Status.ALREADY_EXISTS} THEN Returned(rec.messageId)
    ELSE Thrown("createTask", code)

\* how queue() ends once createTask is answered: the awaited createTask
\* rejects with the service's error, else `return { messageId }`
queueReturn(rec, code) ==
    IF code = Status.OK THEN Returned(rec.messageId)
    ELSE Thrown("createTask", code)

\* the response to createTask arrives: queue() returns { messageId } or throws
CreateTaskResponse(c) ==
    /\ calls[c].pc = "createTask"
    /\ \E code \in createTaskOutcomes(calls[c].task) :
         LET task == calls[c].task
             rec == [calls[c] EXCEPT
                        !.trace = Append(@, Event("createTask", task.parent, code))]
         IN  IF code = Status.OK
             THEN /\ tasks' = tasks \cup
                        {[name |-> IF task.name = Undefined
                                   THEN assignedName(task) ELSE task.name,
                          named |-> task.name # Undefined,
                          parent |-> task.parent,
                          body |-> task.body,
                          origin |-> [queue |-> rec.queue, message |-> rec.message,
                                      key |-> rec.key]]}
                  /\ Finish(c, rec, queueReturn(rec, code))
             ELSE /\ Finish(c, rec, queueReturn(rec, code))
                  /\ tasks' = tasks
    /\ UNCHANGED <<config, queues, gen, ensured, started>>

---------------------------------------------------------------------------
(* processTask *)

\* processTask with the body handed on without the schema check
processTaskUnvalidated(payload) ==
    LET body == deserialize(Field(payload, "data"))
    IN  IF body.thrown
        THEN [thrown |-> TRUE, error |-> "deserialize", engineArgs |-> NoEngineArgs]
        ELSE [thrown |-> FALSE, error |-> Undefined,
              engineArgs |->
                  [queueName |-> ToStr(Field(payload, "prefix"))
                                    \o ToStr(Field(payload, "id")),
                   message |-> body.body,
                   idempotencyKey |-> Field(payload, "idempotencyKey")]]

\* processTask(payload) up to the call of embeddedWorld.queue
processTask(payload) ==
    LET body == deserialize(Field(payload, "data"))
        parsed == QueuePayloadSchemaParse(body.body)
    IN  IF body.thrown
        THEN [thrown |-> TRUE, error |-> "deserialize", engineArgs |-> NoEngineArgs]
        ELSE IF parsed.thrown
             THEN [thrown |-> TRUE, error |-> "QueuePayloadSchema",
                   engineArgs |-> NoEngineArgs]
             ELSE [thrown |-> FALSE, error |-> Undefined,
                   engineArgs |->
                       [queueName |-> ToStr(Field(payload, "prefix"))
                                         \o ToStr(Field(payload, "id")),
                        message |-> parsed.message,
                        idempotencyKey |-> Field(payload, "idempotencyKey")]]

\* processTask handing the message to the bridge's own queue()
ProcessTaskCallRequeueing(c, payload, origin) ==
    /\ Free(c)
    /\ started' = started + 1
    /\ LET rec == [IdleCall EXCEPT !.op = "processTask", !.payload = payload,
                                   !.origin = origin]
           p == processTask(payload)
           parsed == parseQueueName(p.engineArgs.queueName)
       IN  IF p.thrown
           THEN Finish(c, rec, Thrown(p.error, 0))
           ELSE IF parsed.thrown
                THEN Finish(c, rec, Thrown(parsed.error, 0))
                ELSE Continue(c, ensureQueue(
                         [rec EXCEPT !.queue = p.engineArgs.queueName,
                                     !.message = p.engineArgs.message,
                                     !.key = p.engineArgs.idempotencyKey,
                                     !.prefix = parsed.prefix,
                                     !.queueId = parsed.id],
                         Queues[parsed.prefix]))
    /\ UNCHANGED <<config, queues, tasks, gen, ensured>>

\* processTask(payload) is called
ProcessTaskCall(c, payload, origin) ==
    /\ Free(c)
    /\ started' = started + 1
    /\ LET rec == [IdleCall EXCEPT !.op = "processTask", !.payload = payload,
                                   !.origin = origin]
           p == processTask(payload)
       IN  IF p.thrown
           THEN Finish(c, rec, Thrown(p.error, 0))
           ELSE Continue(c, [rec EXCEPT !.pc = "engineQueue",
                                        !.engineArgs = p.engineArgs])
    /\ UNCHANGED <<config, queues, tasks, gen, ensured>>

\* Cloud Tasks delivers a task: the HTTP handler parses the request body and
\* calls processTask with it
Deliver(c) ==
    \E t \in tasks : ProcessTaskCall(c, t.body, t.origin)

\* request bodies that no dispatch of this bridge produced
ForeignPayloads ==
    {[id |-> "a", data |-> "J:m1", messageId |-> "msg_x"],
     [id |-> "a", data |-> "m1", messageId |-> "msg_x", prefix |-> "__wkf_step_"],
     [id |-> "a", data |-> "J:m9", messageId |-> "msg_x", prefix |-> "__wkf_step_"]}

\* the HTTP handler receives any other request body
HandleRequest(c) ==
    \E payload \in ForeignPayloads : ProcessTaskCall(c, payload, NoOrigin)

\* embeddedWorld.queue returns or throws
EngineQueueResponse(c) ==
    /\ calls[c].pc = "engineQueue"
    /\ \E ok \in BOOLEAN :
         LET rec == [calls[c] EXCEPT !.trace =
                        Append(@, Event("embeddedWorld.queue",
                                        calls[c].engineArgs.queueName,
                                        IF ok THEN Status.OK ELSE Status.UNAVAILABLE))]
         IN  Finish(c, rec, IF ok THEN Returned(Undefined)
                                  ELSE Thrown("embeddedWorld.queue", 0))
    /\ UNCHANGED <<config, queues, tasks, gen, ensured, started>>

---------------------------------------------------------------------------
(* The bridge *)

Init ==
    /\ config \in [gcpProjectId : {"p"}, gcpLocation : {"l"},
                   queuePrefix : QueuePrefixInputs]
    /\ queues = {}
    /\ tasks = {}
    /\ calls = [c \in Calls |-> IdleCall]
    /\ ended = IdleCall
    /\ gen = NewFactory
    /\ finished = {}
    /\ ensured = {}
    /\ started = 0

Next ==
    \E c \in Calls :
        \/ \E d \in DispatchInputs : QueueCall(c, d[1], d[2], d[3])
        \/ StartCall(c)
        \/ Deliver(c)
        \/ HandleRequest(c)
        \/ GetQueueResponse(c)
        \/ CreateQueueResponse(c)
        \/ CreateTaskResponse(c)
        \/ EngineQueueResponse(c)

Spec == Init /\ [][Next]_vars

---------------------------------------------------------------------------
(* Properties *)

\* every invocation in view: those in flight and the one that just ended
Invocations == {calls[c] : c \in Calls} \cup {ended}

Recognized(name) == \E p \in QueuePrefix : StartsWith(name, p)

\* the external calls an invocation has made and got an answer to
Made(rec, api) == {i \in DOMAIN rec.trace : rec.trace[i].api = api}

\* the code units of the characters of a message id, in ascending order
CodeUnits == ENCODING \o "_gms"

CodeUnitOf ==
    [ch \in {CharAt(CodeUnits, i) : i \in 0 .. Len(CodeUnits) - 1} |->
        IndexOf(CodeUnits, ch)]

\* a < b as JavaScript compares strings
RECURSIVE StrLess(_, _)
StrLess(a, b) ==
    IF b = "" THEN FALSE
    ELSE IF a = "" THEN TRUE
    ELSE LET x == CodeUnitOf[CharAt(a, 0)]
             y == CodeUnitOf[CharAt(b, 0)]
         IN  IF x = y THEN StrLess(Slice(a, 1), Slice(b, 1)) ELSE x < y

\* C1: whenever queue() is called with a name that starts with
\* '__wkf_workflow_' or '__wkf_step_', parseQueueName gives a prefix and an id
\* whose concatenation is the name, and exactly one recognized prefix matches
\* the name.
C1_ParseRoundTrip ==
    \A rec \in Invocations :
        (rec.op = "queue" /\ Recognized(rec.queue)) =>
            /\ rec.prefix \in QueuePrefix
            /\ rec.prefix \o rec.queueId = rec.queue
            /\ Cardinality({p \in QueuePrefix : StartsWith(rec.queue, p)}) = 1

\* a queue() call with the empty suffix has been parsed
C1_Witness ==
    \E c \in Calls :
        /\ calls[c].op = "queue"
        /\ calls[c].queue = "__wkf_workflow_"
        /\ calls[c].queueId = ""

\* C2: a queue() call whose name starts with neither prefix has thrown
\* 'Invalid queue name', has called the task service not once and has
\* generated no message id.
C2_InvalidNameNoCall ==
    \A rec \in Invocations :
        (rec.op = "queue" /\ ~Recognized(rec.queue)) =>
            /\ rec.pc = "done"
            /\ rec.result.status = "thrown"
            /\ rec.result.error = "Invalid queue name: " \o rec.queue
            /\ rec.trace = <<>>
            /\ rec.task = NoTask
            /\ rec.messageId = Undefined

\* queue() has thrown for a name that only resembles a prefix
C2_Witness ==
    /\ ended.op = "queue"
    /\ ended.queue = "__wkf_stepa"
    /\ ended.result.status = "thrown"

\* C3: an ensureQueue whose createQueue is rejected as already existing (the
\* queue was created by a racing call after this one's getQueue found none)
\* returns normally: the invocation does not throw that rejection.
C3_RaceTolerated ==
    ~ /\ ended.pc = "done"
      /\ ended.result.status = "thrown"
      /\ ended.result.error = "createQueue"
      /\ ended.result.code = Status.ALREADY_EXISTS

\* C4: a processTask whose payload has no recognized prefix throws and never
\* calls the embedded world's queue.
C4_MalformedNoEngineCall ==
    \A rec \in Invocations :
        (rec.op = "processTask" /\ Field(rec.payload, "prefix") \notin QueuePrefix) =>
            /\ rec.pc = "done"
            /\ rec.result.status = "thrown"
            /\ Made(rec, "embeddedWorld.queue") = {}

\* C5 as stated: the dispatches made with one idempotency key to one logical
\* queue share a task name, so the service holds at most one task of them.
C5_SameKeyOneTask ==
    \A t1, t2 \in tasks :
        (/\ t1.origin.key # Undefined
         /\ t1.origin.key = t2.origin.key
         /\ t1.origin.queue = t2.origin.queue) => t1 = t2

\* C5: the queue() calls made with one non-empty idempotency key to one
\* logical queue submit their tasks under one and the same name, and the
\* service holds at most one task of them.
C5_NonEmptyKeyOneTask ==
    /\ \A r1, r2 \in Invocations :
           (/\ r1.op = "queue" /\ r2.op = "queue"
            /\ r1.task # NoTask /\ r2.task # NoTask
            /\ Truthy(r1.key)
            /\ r1.key = r2.key
            /\ r1.queue = r2.queue) =>
               /\ r1.task.name # Undefined
               /\ r1.task.name = r2.task.name
    /\ \A t1, t2 \in tasks :
           (/\ Truthy(t1.origin.key)
            /\ t1.origin.key = t2.origin.key
            /\ t1.origin.queue = t2.origin.queue) => t1 = t2

\* a second dispatch with the key of a task the service holds was rejected
C5_Witness ==
    /\ ended.op = "queue"
    /\ ended.key = "k1"
    /\ ended.result.error = "createTask"
    /\ ended.result.code = Status.ALREADY_EXISTS
    /\ \E t \in tasks : t.origin.key = ended.key /\ t.origin.queue = ended.queue

\* C6: a queue() call without an idempotency key submits a task without a
\* name, is never rejected as a duplicate, and when it returns the service
\* holds a task of its own, named by the service, that carries its message id.
C6_NoKeyNoDedup ==
    \A rec \in Invocations :
        (rec.op = "queue" /\ rec.key = Undefined) =>
            /\ rec.task.name = Undefined
            /\ rec.result.error = "createTask" =>
                   rec.result.code # Status.ALREADY_EXISTS
            /\ rec.result.status = "returned" =>
                   \E t \in tasks :
                       /\ ~t.named
                       /\ t.body.messageId = rec.result.messageId
                       /\ \A u \in tasks : u.name = t.name => u = t

\* a second dispatch of the same message to the same name, without a key,
\* has returned and the service holds both tasks
C6_Witness ==
    /\ ended.op = "queue"
    /\ ended.key = Undefined
    /\ ended.result.status = "returned"
    /\ \E t1, t2 \in tasks :
           /\ t1 # t2
           /\ t1.origin = t2.origin
           /\ t1.origin.key = Undefined

\* C7: the message ids generated are pairwise distinct, and the id of a
\* queue() call sorts strictly after the id of every call that had ended
\* before it began.
C7_MessageIdsDistinctOrdered ==
    /\ \A c \in Calls :
           calls[c].messageId # Undefined =>
               /\ calls[c].messageId \notin finished
               /\ \A d \in Calls \ {c} : calls[d].messageId # calls[c].messageId
    /\ \A rec \in Invocations :
           rec.messageId # Undefined =>
               \A b \in rec.before : StrLess(b, rec.messageId)

\* a call got its id in the millisecond of an earlier, ended call
C7_Witness ==
    \E c \in Calls :
        /\ calls[c].messageId # Undefined
        /\ \E b \in calls[c].before :
               SubSeq(b, 1, 4 + TIME_LEN) = SubSeq(calls[c].messageId, 1, 4 + TIME_LEN)

\* C8: an ensureQueue that begins after an ensureQueue of the same queue has
\* returned normally finds the queue and sends no createQueue.
C8_SecondEnsureCreatesNothing ==
    \A c \in Calls :
        calls[c].ensuredBefore =>
            /\ calls[c].pc # "createQueue"
            /\ calls[c].pc = "getQueue" => getQueuePath(calls[c].jobName) \in queues

\* a second ensureQueue of a queue has returned
C8_Witness ==
    /\ ended.ensuredBefore
    /\ ended.result.status = "returned"
    /\ Made(ended, "createQueue") = {}

\* C9: when the envelope of a successful dispatch is delivered, processTask
\* calls the embedded world's queue, and with the queue name, the message and
\* the idempotency key of that dispatch.
C9_DeliveryRoundTrip ==
    \A rec \in Invocations :
        (rec.op = "processTask" /\ rec.origin # NoOrigin) =>
            /\ rec.pc = "engineQueue" \/ Made(rec, "embeddedWorld.queue") # {}
            /\ rec.engineArgs = [queueName |-> rec.origin.queue,
                                 message |-> rec.origin.message,
                                 idempotencyKey |-> rec.origin.key]

\* the envelope of a dispatch with a key, and of one without, reached the
\* embedded world
C9_Witness ==
    /\ ended.op = "processTask"
    /\ ended.origin # NoOrigin
    /\ ended.result.status = "returned"
    /\ ended.engineArgs.queueName = "__wkf_step_a"

\* C10: queue() sends createTask only after a getQueue or createQueue of the
\* physical queue of its kind has succeeded in the same call, with that queue
\* as the task's parent; a queue() whose ensureQueue threw made no createTask.
C10_EnsureBeforeCreateTask ==
    \A rec \in Invocations :
        rec.op = "queue" =>
            /\ (rec.pc = "createTask" \/ Made(rec, "createTask") # {}) =>
                   /\ rec.task.parent = getQueuePath(Queues[rec.prefix])
                   /\ \E i \in DOMAIN rec.trace :
                          /\ rec.trace[i].api \in {"getQueue", "createQueue"}
                          /\ rec.trace[i].code = Status.OK
                          /\ rec.trace[i].target = rec.task.parent
                          /\ \A j \in Made(rec, "createTask") : i < j
            /\ (rec.result.status = "thrown"
                    /\ rec.result.error \in {"getQueue", "createQueue"}) =>
                   /\ Made(rec, "createTask") = {}
                   /\ rec.task = NoTask

\* a queue() call created its queue and then its task
C10_Witness ==
    /\ ended.op = "queue"
    /\ ended.result.status = "returned"
    /\ Made(ended, "createQueue") # {}
    /\ Made(ended, "createTask") # {}

\* C11: a getQueue answered with an error other than not-found ends the
\* invocation with that same error: no createQueue and no second getQueue
\* follows it. A createQueue is sent only right after a getQueue of the same
\* queue was answered not-found.
C11_LookupErrorPropagates ==
    \A rec \in Invocations :
        /\ \A i \in Made(rec, "getQueue") :
               rec.trace[i].code \notin {Status.OK, Status.NOT_FOUND} =>
                   /\ i = Len(rec.trace)
                   /\ rec.pc = "done"
                   /\ rec.result.status = "thrown"
                   /\ rec.result.error = "getQueue"
                   /\ rec.result.code = rec.trace[i].code
        /\ \A j \in Made(rec, "createQueue") :
               /\ j > 1
               /\ rec.trace[j - 1] =
                      Event("getQueue", rec.trace[j].target, Status.NOT_FOUND)
        /\ rec.pc = "createQueue" =>
               /\ rec.trace # <<>>
               /\ rec.trace[Len(rec.trace)] =
                      Event("getQueue", getQueuePath(rec.jobName), Status.NOT_FOUND)

\* queue() has thrown the error its lookup was answered with
C11_Witness ==
    /\ ended.op = "queue"
    /\ ended.result.status = "thrown"
    /\ ended.result.error = "getQueue"
    /\ ended.result.code = Status.UNAVAILABLE
    /\ ended.trace = <<Event("getQueue", getQueuePath(ended.jobName),
                             Status.UNAVAILABLE)>>

\* C12: a queue() call sends createTask at most once. When createTask is
\* answered with an error the call throws that error and returns no message
\* id; a call that returned a message id had its createTask accepted, and the
\* id is the one it generated.
C12_CreateTaskOnceErrorPropagates ==
    \A rec \in Invocations :
        rec.op = "queue" =>
            /\ Cardinality(Made(rec, "createTask")) <= 1
            /\ rec.pc = "createTask" => Made(rec, "createTask") = {}
            /\ \A i \in Made(rec, "createTask") :
                   /\ i = Len(rec.trace)
                   /\ rec.pc = "done"
                   /\ rec.trace[i].code # Status.OK =>
                          /\ rec.result.status = "thrown"
                          /\ rec.result.error = "createTask"
                          /\ rec.result.code = rec.trace[i].code
                          /\ rec.result.messageId = Undefined
            /\ rec.result.status = "returned" =>
                   /\ \E i \in Made(rec, "createTask") :
                          rec.trace[i].code = Status.OK
                   /\ rec.result.messageId # Undefined
                   /\ rec.result.messageId = rec.messageId

\* queue() has thrown the error its createTask was answered with
C12_Witness ==
    /\ ended.op = "queue"
    /\ ended.result.status = "thrown"
    /\ ended.result.error = "createTask"
    /\ ended.result.code = Status.UNAVAILABLE
    /\ ended.messageId # Undefined

\* C13: a processTask whose payload data cannot be deserialized, or whose
\* deserialized body the schema rejects, throws without calling the embedded
\* world's queue; a processTask whose call of the embedded world's queue
\* failed throws; a processTask that returned had that call succeed.
C13_ProcessTaskFailurePropagates ==
    \A rec \in Invocations :
        rec.op = "processTask" =>
            LET body == deserialize(Field(rec.payload, "data"))
            IN  /\ (body.thrown \/ QueuePayloadSchemaParse(body.body).thrown) =>
                       /\ rec.pc = "done"
                       /\ rec.result.status = "thrown"
                       /\ rec.result.error =
                              IF body.thrown THEN "deserialize"
                              ELSE "QueuePayloadSchema"
                       /\ rec.engineArgs = NoEngineArgs
                       /\ rec.trace = <<>>
                /\ \A i \in Made(rec, "embeddedWorld.queue") :
                       rec.trace[i].code # Status.OK =>
                           /\ rec.pc = "done"
                           /\ rec.result.status = "thrown"
                           /\ rec.result.error = "embeddedWorld.queue"
                /\ rec.result.status = "returned" =>
                       \E i \in Made(rec, "embeddedWorld.queue") :
                           rec.trace[i].code = Status.OK

\* a processTask has thrown on a body the schema rejects
C13_Witness ==
    /\ ended.op = "processTask"
    /\ ~deserialize(Field(ended.payload, "data")).thrown
    /\ ended.result.status = "thrown"
    /\ ended.result.error = "QueuePayloadSchema"

\* C14: '__wkf_workflow_' maps to '<prefix>flows' and '__wkf_step_' to
\* '<prefix>steps', where <prefix> is the configured one or 'workflow-'; the
\* two names differ, and every queue ever ensured, looked up, created or used
\* as the parent of a task is one of the two: in a queue() call it is the one
\* of the kind of the call's queue name.
C14_PhysicalQueuesFixed ==
    LET configured == IF config.queuePrefix \in {Undefined, ""}
                      THEN "workflow-" ELSE config.queuePrefix
        flows == configured \o "flows"
        steps == configured \o "steps"
        PathOf(name) == "projects/" \o config.gcpProjectId \o "/locations/"
                            \o config.gcpLocation \o "/queues/" \o name
        PathOfKind(name) == IF StartsWith(name, "__wkf_workflow_")
                            THEN PathOf(flows) ELSE PathOf(steps)
    IN  /\ DOMAIN Queues = QueuePrefix
        /\ Queues["__wkf_workflow_"] = flows
        /\ Queues["__wkf_step_"] = steps
        /\ flows # steps
        /\ ensured \subseteq {flows, steps}
        /\ queues \subseteq {PathOf(flows), PathOf(steps)}
        /\ \A t \in tasks : t.parent = PathOfKind(t.origin.queue)
        /\ \A rec \in Invocations :
               /\ \A i \in DOMAIN rec.trace :
                      rec.trace[i].api \in {"getQueue", "createQueue", "createTask"} =>
                          /\ rec.trace[i].target \in {PathOf(flows), PathOf(steps)}
                          /\ rec.op = "queue" =>
                                 rec.trace[i].target = PathOfKind(rec.queue)
               /\ rec.jobName # Undefined => rec.jobName \in {flows, steps}
               /\ rec.task # NoTask => rec.task.parent = PathOfKind(rec.queue)

\* under the default prefix the service holds a task in each of the queues
C14_Witness ==
    /\ config.queuePrefix = Undefined
    /\ \E t1, t2 \in tasks :
           /\ t1.parent = "projects/p/locations/l/queues/workflow-flows"
           /\ t2.parent = "projects/p/locations/l/queues/workflow-steps"

\* C15: the envelope a queue() call submits carries as id the part of the
\* queue name after the matched prefix, as prefix the matched prefix, as
\* idempotencyKey the key as supplied (absent when none was), and as messageId
\* the id the call generated, which is the one it returns; the tasks the
\* service holds carry the same of their dispatch.
C15_EnvelopeFields ==
    LET Carries(body, name, key) ==
            \E p \in QueuePrefix :
                /\ StartsWith(name, p)
                /\ Field(body, "prefix") = p
                /\ Field(body, "id") = SubSeq(name, Len(p) + 1, Len(name))
                /\ Field(body, "idempotencyKey") = key
                /\ key # Undefined => "idempotencyKey" \in DOMAIN body
    IN  /\ \A rec \in Invocations :
               (rec.op = "queue" /\ rec.task # NoTask) =>
                   /\ Carries(rec.task.body, rec.queue, rec.key)
                   /\ Field(rec.task.body, "messageId") = rec.messageId
                   /\ rec.messageId # Undefined
                   /\ rec.result.status = "returned" =>
                          rec.result.messageId = Field(rec.task.body, "messageId")
        /\ \A t \in tasks : Carries(t.body, t.origin.queue, t.origin.key)

\* a queue() call with a key has returned the message id of its envelope
C15_Witness ==
    /\ ended.op = "queue"
    /\ ended.result.status = "returned"
    /\ ended.queue = "__wkf_step_b"
    /\ ended.task.body.id = "b"
    /\ ended.task.body.idempotencyKey = "k1"
    /\ ended.task.body.messageId = ended.result.messageId

\* C16: a start() that returned found or created both physical queues, and
\* both exist; it looks up the second queue only after the first was found or
\* created; an ensureQueue failure (any answer but success and a not-found
\* lookup) is its last call and start() throws that error.
C16_StartEnsuresBoth ==
    \A rec \in Invocations :
        rec.op = "start" =>
            LET flows == getQueuePath(Queues["__wkf_workflow_"])
                steps == getQueuePath(Queues["__wkf_step_"])
                EnsuredAt(path, i) ==
                    /\ rec.trace[i].api \in {"getQueue", "createQueue"}
                    /\ rec.trace[i].target = path
                    /\ rec.trace[i].code = Status.OK
            IN  /\ rec.result.status = "returned" =>
                       /\ {flows, steps} \subseteq queues
                       /\ \E i, j \in DOMAIN rec.trace :
                              i < j /\ EnsuredAt(flows, i) /\ EnsuredAt(steps, j)
                /\ \A j \in DOMAIN rec.trace :
                       rec.trace[j].target = steps =>
                           \E i \in 1 .. j - 1 : EnsuredAt(flows, i)
                /\ (rec.pc \in {"getQueue", "createQueue"}
                        /\ rec.jobName = Queues["__wkf_step_"]) =>
                       \E i \in DOMAIN rec.trace : EnsuredAt(flows, i)
                /\ \A i \in DOMAIN rec.trace :
                       (/\ rec.trace[i].code # Status.OK
                        /\ rec.trace[i] # Event("getQueue", rec.trace[i].target,
                                                Status.NOT_FOUND)) =>
                           /\ i = Len(rec.trace)
                           /\ rec.pc = "done"
                           /\ rec.result = Thrown(rec.trace[i].api, rec.trace[i].code)
                /\ rec.result.status = "thrown" =>
                       /\ rec.trace # <<>>
                       /\ rec.trace[Len(rec.trace)].code # Status.OK

\* start() has created both queues and returned
C16_Witness ==
    /\ ended.op = "start"
    /\ ended.result.status = "returned"
    /\ Cardinality(Made(ended, "createQueue")) = 2
    /\ Cardinality(queues) = 2

\* C17: a queue() or start() invocation never calls the embedded world's
\* queue, and a processTask invocation never calls getQueue, createQueue or
\* createTask: it builds no task and awaits none of the three.
C17_PathsNeverCross ==
    \A rec \in Invocations :
        /\ rec.op \in {"queue", "start"} =>
               /\ Made(rec, "embeddedWorld.queue") = {}
               /\ rec.pc # "engineQueue"
               /\ rec.engineArgs = NoEngineArgs
        /\ rec.op = "processTask" =>
               /\ \A i \in DOMAIN rec.trace : rec.trace[i].api = "embeddedWorld.queue"
               /\ rec.pc \notin {"getQueue", "createQueue", "createTask"}
               /\ rec.jobName = Undefined
               /\ rec.task = NoTask
               /\ rec.messageId = Undefined

\* a delivered task reached the embedded world and the service still holds
\* one task, a queue() call reached the service
C17_Witness ==
    /\ ended.op = "processTask"
    /\ ended.result.status = "returned"
    /\ ended.origin # NoOrigin
    /\ Len(ended.trace) = 1
    /\ Cardinality(tasks) = 1

\* C18 as stated: of the dispatches made with one idempotency key to two
\* different queue names of one kind, the service holds at most one.
C18_SameKeyAnyIdOneTask ==
    \A t1, t2 \in tasks :
        (/\ t1.origin.key # Undefined
         /\ t1.origin.key = t2.origin.key
         /\ t1.origin.queue # t2.origin.queue
         /\ t1.body.prefix = t2.body.prefix) => t1 = t2

\* C18: the queue() calls made with one non-empty idempotency key to queue
\* names of one kind submit their tasks under one and the same name, whatever
\* the suffix ids, and the service holds at most one task of them.
C18_NonEmptyKeyAnyIdOneTask ==
    /\ \A r1, r2 \in Invocations :
           (/\ r1.op = "queue" /\ r2.op = "queue"
            /\ r1.task # NoTask /\ r2.task # NoTask
            /\ Truthy(r1.key)
            /\ r1.key = r2.key
            /\ r1.prefix = r2.prefix) =>
               /\ r1.task.name # Undefined
               /\ r1.task.name = r2.task.name
    /\ \A t1, t2 \in tasks :
           (/\ Truthy(t1.origin.key)
            /\ t1.origin.key = t2.origin.key
            /\ t1.body.prefix = t2.body.prefix) => t1 = t2

\* a dispatch to one step queue was rejected because the service holds the
\* task of a dispatch with its key to another step queue
C18_Witness ==
    /\ ended.op = "queue"
    /\ Truthy(ended.key)
    /\ ended.result.error = "createTask"
    /\ ended.result.code = Status.ALREADY_EXISTS
    /\ \E t \in tasks :
           /\ t.name = ended.task.name
           /\ t.origin.key = ended.key
           /\ t.body.prefix = ended.prefix
           /\ t.origin.queue # ended.queue

\* C19: a queue() call with a key whose createTask was rejected because the
\* service holds a task of that name throws that rejection and returns no
\* message id, though it had generated one, which no task in the service
\* carries; the message ids of the calls that returned are pairwise distinct:
\* each is carried by exactly one task.
C19_DuplicateRejectedNoId ==
    /\ \A rec \in Invocations :
           (/\ rec.op = "queue"
            /\ rec.key # Undefined
            /\ \E i \in Made(rec, "createTask") :
                   rec.trace[i].code = Status.ALREADY_EXISTS) =>
               /\ rec.pc = "done"
               /\ rec.result = Thrown("createTask", Status.ALREADY_EXISTS)
               /\ rec.result.messageId = Undefined
               /\ rec.messageId # Undefined
               /\ rec.task.body.messageId = rec.messageId
               /\ \A t \in tasks : t.body.messageId # rec.messageId
               /\ \E t \in tasks : t.name = rec.task.name
    /\ \A t1, t2 \in tasks : t1.body.messageId = t2.body.messageId => t1 = t2
    /\ \A rec \in Invocations :
           (rec.op = "queue" /\ rec.result.status = "returned") =>
               /\ rec.result.messageId \notin rec.before
               /\ Cardinality({t \in tasks :
                                   t.body.messageId = rec.result.messageId}) = 1

\* a rejected duplicate had generated a message id that it did not return
C19_Witness ==
    /\ ended.op = "queue"
    /\ ended.result = Thrown("createTask", Status.ALREADY_EXISTS)
    /\ ended.messageId # Undefined
    /\ ended.messageId \in finished
    /\ \E t \in tasks : t.name = ended.task.name

====
